---- MODULE Spec2Model ----
(***************************************************************************)
(* Model of the rule engines of the billing scrubber (src/app.py):         *)
(* scrub_billing_data (normalisation and the four billing passes) and      *)
(* scrub_session_notes (segmentation and the note rules).                  *)
(*                                                                         *)
(* A billing table is a sequence of rows in file order; the row's position *)
(* is its index label.  Client and provider names are numbered in their    *)
(* sort order, dates are day numbers and timestamps are slot numbers.      *)
(* A note document is a sequence of text tokens, each token standing for   *)
(* one of the literal fragments the note rules look for.                   *)
(***************************************************************************)
EXTENDS Integers, Sequences, FiniteSets, TLC

VARIABLES df, issues, pc, k, passes, ret, badCols,
          full_text, ni, note_issues, npc

billingVars == <<df, issues, pc, k, passes, ret, badCols>>
noteVars == <<full_text, ni, note_issues, npc>>
vars == <<df, issues, pc, k, passes, ret, badCols, full_text, ni, note_issues, npc>>

(***************************************************************************)
(* Bounds of the model.                                                    *)
(***************************************************************************)
MaxRows == 2
MaxOverlapRows == 3
MaxGroupRows == 3
MaxNoteLen == 4

(***************************************************************************)
(* Rule catalog.                                                           *)
(***************************************************************************)
MAX_SESSION_HOURS == 4
MAX_SUPERVISION_HOURS == 2
HIGH_DRIVE_TIME == 60

CODE_DIRECT_CARE == 97153
CODE_SUPERVISION_1 == 97155
CODE_PARENT_TRAINING_ALL == {97156, 97157, 96167, 96168, 96170, 96171}

\* dict BASE_ADDON_PAIRS, its keys in insertion order in BASE_CODES
BASE_CODES == <<96158, 96164, 96167, 96170>>
BASE_ADDON_PAIRS == (96158 :> 96159) @@ (96164 :> 96165) @@ (96167 :> 96168) @@ (96170 :> 96171)
\* dict SUPERVISION_PAIRS, its keys in insertion order in SUP_CODES
SUP_CODES == <<97155, 96156>>
SUPERVISION_PAIRS == (97155 :> 97153) @@ (96156 :> 96159)
CODES_CONFLICT_WITH_DIRECT == {96167, 96168}
\* the integer 3 and the string '03'; cell values are written as Python literals
FORBIDDEN_LOCATIONS_CODES == {"3", "'03'"}
FORBIDDEN_LOCATIONS_TEXT == {"school"}

(***************************************************************************)
(* Generic helpers.                                                        *)
(***************************************************************************)
SeqsUpTo(S, n) == UNION {[1..m -> S] : m \in 0..n}

RECURSIVE ConcatAll(_)
ConcatAll(ss) == IF ss = <<>> THEN <<>> ELSE Head(ss) \o ConcatAll(Tail(ss))

Min(S) == CHOOSE x \in S : \A y \in S : x <= y

\* ascending order of a finite set of integers
RECURSIVE SortInts(_)
SortInts(S) == IF S = {} THEN <<>> ELSE <<Min(S)>> \o SortInts(S \ {Min(S)})

\* pandas .unique(): first occurrences, in order of appearance
RECURSIVE Unique(_)
Unique(s) ==
    IF s = <<>> THEN <<>>
    ELSE LET rest == Unique(SelectSeq(Tail(s), LAMBDA x : x # Head(s)))
         IN  <<Head(s)>> \o rest

CountIn(s, x) == Cardinality({i \in DOMAIN s : s[i] = x})

(***************************************************************************)
(* Normalisation (lines 78-95).                                            *)
(***************************************************************************)
\* pd.to_numeric(errors='coerce') on the cells the model uses: a cell that
\* holds a number parses to it, any other cell becomes NaN
NUMERIC_CELLS ==
    [s \in {"97153", "97155", "97156", "97157", "96156", "96158", "96159",
            "96164", "96165", "96167", "96168", "96170", "96171"} |->
        CASE s = "97153" -> 97153 [] s = "97155" -> 97155 [] s = "97156" -> 97156
          [] s = "97157" -> 97157 [] s = "96156" -> 96156 [] s = "96158" -> 96158
          [] s = "96159" -> 96159 [] s = "96164" -> 96164 [] s = "96165" -> 96165
          [] s = "96167" -> 96167 [] s = "96168" -> 96168 [] s = "96170" -> 96170
          [] s = "96171" -> 96171]

IsNumeric(cell) == cell \in DOMAIN NUMERIC_CELLS

\* lines 79-80: coerce ProcedureCode, drop the rows that did not parse
DropNa(raw) == SelectSeq(raw, LAMBDA r : IsNumeric(r.code))

\* lines 79, 88-90, 94-95: the typed row, is_supervised False
TypedRow(r) ==
    [client |-> r.client, provider |-> r.provider, code |-> NUMERIC_CELLS[r.code],
     date |-> r.date, from |-> r.from, to |-> r.to, hours |-> r.hours,
     drive |-> r.drive, locCode |-> r.locCode, locDesc |-> r.locDesc,
     is_supervised |-> FALSE]

NormalizeRows(raw) == LET kept == DropNa(raw) IN [i \in DOMAIN kept |-> TypedRow(kept[i])]

DATE_COLUMNS == <<"TimeWorkedFrom", "TimeWorkedTo", "DateOfService">>

\* lines 88-92: the first column that fails to parse raises, its message is formatted
DateErrorString(bad) ==
    LET first == Min({i \in DOMAIN DATE_COLUMNS : DATE_COLUMNS[i] \in bad})
    IN  "Date Error: " \o DATE_COLUMNS[first]

(***************************************************************************)
(* Row checks (lines 100-110).                                             *)
(***************************************************************************)
MkIssue(client, date, issue, detail) ==
    [Client |-> client, Date |-> date, Issue |-> issue, Detail |-> detail]

\* str(...).lower() on the descriptions the model uses
Lower(desc) ==
    CASE desc = "School" -> "school"
      [] desc = "Home" -> "home"
      [] OTHER -> desc

\* 'school' in loc_desc, on lower-cased descriptions
ContainsText(loc_desc, x) == x = "school" /\ loc_desc \in {"school"}

RowIssues(row) ==
    LET loc_code == row.locCode
        loc_desc == Lower(row.locDesc)
    IN  (IF row.hours > MAX_SESSION_HOURS
         THEN <<MkIssue(row.client, row.date, "Session > 4 Hours",
                        <<ToString(row.code), ToString(row.hours)>>)>>
         ELSE <<>>)
     \o (IF row.code = CODE_SUPERVISION_1 /\ row.hours > MAX_SUPERVISION_HOURS
         THEN <<MkIssue(row.client, row.date, "Supervision > 2 Hours",
                        <<ToString(row.hours)>>)>>
         ELSE <<>>)
     \o (IF loc_code \in FORBIDDEN_LOCATIONS_CODES
            \/ \E x \in FORBIDDEN_LOCATIONS_TEXT : ContainsText(loc_desc, x)
         THEN <<MkIssue(row.client, row.date, "Forbidden Location",
                        <<loc_code, loc_desc>>)>>
         ELSE <<>>)
     \o (IF row.drive > HIGH_DRIVE_TIME
         THEN <<MkIssue(row.client, row.date, "High Travel Time",
                        <<ToString(row.drive)>>)>>
         ELSE <<>>)

RowChecks(d) == ConcatAll([i \in DOMAIN d |-> RowIssues(d[i])])

(***************************************************************************)
(* Group checks (lines 113-128).                                           *)
(***************************************************************************)
KeyLess(a, b) == a[1] < b[1] \/ (a[1] = b[1] /\ a[2] < b[2])

\* groupby(['Client Name', 'DateOnly']): the keys present, in sorted order
RECURSIVE SortKeys(_)
SortKeys(S) ==
    IF S = {} THEN <<>>
    ELSE LET m == CHOOSE a \in S : \A b \in S : a = b \/ KeyLess(a, b)
         IN  <<m>> \o SortKeys(S \ {m})

GroupKeys(d) == SortKeys({<<d[i].client, d[i].date>> : i \in DOMAIN d})

GroupOf(d, client, date) == SelectSeq(d, LAMBDA r : r.client = client /\ r.date = date)

StartTimes(rows) == {rows[i].from : i \in DOMAIN rows}

ConflictIssues(client, date, codes_today) ==
    IF CountIn(codes_today, CODE_DIRECT_CARE) > 0
       /\ \E i \in DOMAIN codes_today : codes_today[i] \in CODES_CONFLICT_WITH_DIRECT
    THEN <<MkIssue(client, date, "Direct Care & Family Conflict",
                   <<"Cannot bill 97153 + Family same day">>)>>
    ELSE <<>>

\* variant of DuplicateIssues: one issue for each repetition of the base code
DuplicateIssuesPerRepeat(client, date, codes_today, base_code) ==
    [i \in 1..(IF CountIn(codes_today, base_code) > 1
               THEN CountIn(codes_today, base_code) - 1 ELSE 0) |->
        MkIssue(client, date, "Duplicate Base " \o ToString(base_code),
                <<"Billed multiple times">>)]

DuplicateIssues(client, date, codes_today, base_code) ==
    IF CountIn(codes_today, base_code) > 1
    THEN <<MkIssue(client, date, "Duplicate Base " \o ToString(base_code),
                   <<"Billed multiple times">>)>>
    ELSE <<>>

\* variant of PairIssues: >= in place of > on the earliest starts
PairIssuesNotStrict(client, date, group, base_code) ==
    LET addon_code == BASE_ADDON_PAIRS[base_code]
        addon_rows == SelectSeq(group, LAMBDA r : r.code = addon_code)
        base_rows == SelectSeq(group, LAMBDA r : r.code = base_code)
    IN  IF addon_rows # <<>>
        THEN IF base_rows = <<>>
             THEN <<MkIssue(client, date, "Orphaned Add-on " \o ToString(addon_code),
                            <<"No Base Code">>)>>
             ELSE IF Min(StartTimes(base_rows)) >= Min(StartTimes(addon_rows))
                  THEN <<MkIssue(client, date, "Sequence Error",
                                 <<"Base " \o ToString(base_code) \o " started AFTER Add-on">>)>>
                  ELSE <<>>
        ELSE <<>>

PairIssues(client, date, group, base_code) ==
    LET addon_code == BASE_ADDON_PAIRS[base_code]
        addon_rows == SelectSeq(group, LAMBDA r : r.code = addon_code)
        base_rows == SelectSeq(group, LAMBDA r : r.code = base_code)
    IN  IF addon_rows # <<>>
        THEN IF base_rows = <<>>
             THEN <<MkIssue(client, date, "Orphaned Add-on " \o ToString(addon_code),
                            <<"No Base Code">>)>>
             ELSE IF Min(StartTimes(base_rows)) > Min(StartTimes(addon_rows))
                  THEN <<MkIssue(client, date, "Sequence Error",
                                 <<"Base " \o ToString(base_code) \o " started AFTER Add-on">>)>>
                  ELSE <<>>
        ELSE <<>>

GroupIssues(d, client, date) ==
    LET group == GroupOf(d, client, date)
        codes_today == [i \in DOMAIN group |-> group[i].code]
    IN  ConflictIssues(client, date, codes_today)
     \o ConcatAll([b \in DOMAIN BASE_CODES |->
                      DuplicateIssues(client, date, codes_today, BASE_CODES[b])])
     \o ConcatAll([b \in DOMAIN BASE_CODES |->
                      PairIssues(client, date, group, BASE_CODES[b])])

GroupChecks(d) ==
    LET keys == GroupKeys(d)
    IN  ConcatAll([g \in DOMAIN keys |-> GroupIssues(d, keys[g][1], keys[g][2])])

(***************************************************************************)
(* Overlap checks (lines 131-140).                                         *)
(***************************************************************************)
\* variant of Overlaps: closed intervals, touching rows overlap
OverlapsClosed(target, sup) == target.from <= sup.to /\ target.to >= sup.from

\* line 135: the interval test of one target row against the supervising row
Overlaps(target, sup) == target.from < sup.to /\ target.to > sup.from

\* line 135: index labels of the target rows that overlap the supervising row
OverlapIndex(d, sup, target_code) ==
    {j \in DOMAIN d : /\ d[j].code = target_code
                      /\ d[j].client = sup.client
                      /\ Overlaps(d[j], sup)}

\* variant of MarksSupervised: every supervision pair marks its targets
MarksEveryPair(sup_code) == TRUE

\* line 139: only the first supervision code marks its targets
MarksSupervised(sup_code) == sup_code = CODE_SUPERVISION_1

\* lines 136-140 for one supervising row, on the table and issue list so far
SupStep(st, sup_code, i) ==
    LET sup == st.df[i]
        target_code == SUPERVISION_PAIRS[sup_code]
        overlap == OverlapIndex(st.df, sup, target_code)
    IN  IF overlap = {}
        THEN [df |-> st.df,
              issues |-> Append(st.issues,
                  MkIssue(sup.client, sup.date, "No Overlap for " \o ToString(sup_code),
                          <<"No concurrent " \o ToString(target_code)>>))]
        ELSE IF MarksSupervised(sup_code)
             THEN [df |-> [j \in DOMAIN st.df |->
                              IF j \in overlap
                              THEN [st.df[j] EXCEPT !.is_supervised = TRUE]
                              ELSE st.df[j]],
                   issues |-> st.issues]
             ELSE st

\* line 134: the supervising rows in table order
RECURSIVE SupLoop(_, _, _)
SupLoop(st, sup_code, idxs) ==
    IF idxs = <<>> THEN st
    ELSE SupLoop(SupStep(st, sup_code, Head(idxs)), sup_code, Tail(idxs))

\* line 131: the supervision pairs in dict order
RECURSIVE PairLoop(_, _)
PairLoop(st, codes) ==
    IF codes = <<>> THEN st
    ELSE LET sup_code == Head(codes)
             sup_rows == SortInts({i \in DOMAIN st.df : st.df[i].code = sup_code})
         IN  PairLoop(SupLoop(st, sup_code, sup_rows), Tail(codes))

\* the table with its flags set and the issues of the pass
OverlapChecks(d) == PairLoop([df |-> d, issues |-> <<>>], SUP_CODES)

(***************************************************************************)
(* Monthly checks (lines 143-150).                                         *)
(***************************************************************************)
ClientsOf(d) == SortInts({d[i].client : i \in DOMAIN d})

ParentTrainingIssues(client, group) ==
    IF ~ \E c \in CODE_PARENT_TRAINING_ALL : \E i \in DOMAIN group : group[i].code = c
    THEN <<MkIssue(client, "Monthly", "Missing Parent Training", <<"None this month">>)>>
    ELSE <<>>

\* variant of AnySupervised: .all() in place of .any()
AllSupervised(p_sessions) == \A i \in DOMAIN p_sessions : p_sessions[i].is_supervised

\* line 149: .any() over the provider's direct-care sessions
AnySupervised(p_sessions) == \E i \in DOMAIN p_sessions : p_sessions[i].is_supervised

ProviderIssues(client, group, provider) ==
    LET p_sessions == SelectSeq(group,
                         LAMBDA r : r.provider = provider /\ r.code = CODE_DIRECT_CARE)
    IN  IF ~ AnySupervised(p_sessions)
        THEN <<MkIssue(client, "Monthly", "RBT Never Supervised",
                       <<"Provider " \o ToString(provider) \o " had no overlap">>)>>
        ELSE <<>>

MonthlyIssues(d, client) ==
    LET group == SelectSeq(d, LAMBDA r : r.client = client)
        direct == SelectSeq(group, LAMBDA r : r.code = CODE_DIRECT_CARE)
        direct_providers == Unique([i \in DOMAIN direct |-> direct[i].provider])
    IN  ParentTrainingIssues(client, group)
     \o ConcatAll([p \in DOMAIN direct_providers |->
                      ProviderIssues(client, group, direct_providers[p])])

MonthlyChecks(d) ==
    LET clients == ClientsOf(d)
    IN  ConcatAll([c \in DOMAIN clients |-> MonthlyIssues(d, clients[c])])

(***************************************************************************)
(* scrub_billing_data as a state machine (lines 77-152).                   *)
(***************************************************************************)
\* variant of PASS_ORDER: the overlap checks moved before the group checks
PASS_ORDER_OverlapEarly == <<"row", "overlap", "group", "monthly">>

\* the order in which lines 99-150 run the passes
PASS_ORDER == <<"row", "group", "overlap", "monthly">>

NextPass == IF pc = "run" /\ k < Len(passes) THEN passes[k + 1] ELSE "none"

\* lines 78-92, a date column fails to parse: the early return
DateError ==
    /\ pc = "start"
    /\ badCols # {}
    /\ ret' = << <<DateErrorString(badCols)>>, DropNa(df) >>
    /\ df' = DropNa(df)
    /\ pc' = "done"
    /\ UNCHANGED <<issues, k, passes, badCols>>
    /\ UNCHANGED noteVars

\* lines 78-97, every date column parses
Normalize ==
    /\ pc = "start"
    /\ badCols = {}
    /\ df' = NormalizeRows(df)
    /\ issues' = <<>>
    /\ k' = 0
    /\ pc' = "run"
    /\ UNCHANGED <<passes, ret, badCols>>
    /\ UNCHANGED noteVars

RowPass ==
    /\ NextPass = "row"
    /\ issues' = issues \o RowChecks(df)
    /\ k' = k + 1
    /\ UNCHANGED <<df, pc, passes, ret, badCols>>
    /\ UNCHANGED noteVars

GroupPass ==
    /\ NextPass = "group"
    /\ issues' = issues \o GroupChecks(df)
    /\ k' = k + 1
    /\ UNCHANGED <<df, pc, passes, ret, badCols>>
    /\ UNCHANGED noteVars

\* variant of OverlapPass: the flags are set on a copy of the table
OverlapPassOnCopy ==
    /\ NextPass = "overlap"
    /\ issues' = issues \o OverlapChecks(df).issues
    /\ k' = k + 1
    /\ UNCHANGED <<df, pc, passes, ret, badCols>>
    /\ UNCHANGED noteVars

OverlapPass ==
    /\ NextPass = "overlap"
    /\ LET out == OverlapChecks(df)
       IN  /\ df' = out.df
           /\ issues' = issues \o out.issues
    /\ k' = k + 1
    /\ UNCHANGED <<pc, passes, ret, badCols>>
    /\ UNCHANGED noteVars

MonthlyPass ==
    /\ NextPass = "monthly"
    /\ issues' = issues \o MonthlyChecks(df)
    /\ k' = k + 1
    /\ UNCHANGED <<df, pc, passes, ret, badCols>>
    /\ UNCHANGED noteVars

\* line 152
Return ==
    /\ pc = "run"
    /\ k = Len(passes)
    /\ ret' = issues
    /\ pc' = "done"
    /\ UNCHANGED <<df, issues, k, passes, badCols>>
    /\ UNCHANGED noteVars

NextBilling ==
    \/ DateError
    \/ Normalize
    \/ RowPass
    \/ GroupPass
    \/ OverlapPass
    \/ MonthlyPass
    \/ Return

(***************************************************************************)
(* Billing inputs.                                                         *)
(***************************************************************************)
Clients == {1, 2}
Providers == {1, 2}
Dates == {1, 2}
Intervals == {<<0, 1>>, <<0, 2>>, <<1, 2>>}

RawRow(c, p, code, d, iv, h, dr, lc, ld) ==
    [client |-> c, provider |-> p, code |-> code, date |-> d, from |-> iv[1],
     to |-> iv[2], hours |-> h, drive |-> dr, locCode |-> lc, locDesc |-> ld]

\* hours, drive minutes, location code and description of a row
Profiles == {<<1, 0, "11", "Home">>, <<5, 61, "3", "Home">>, <<3, 60, "12", "School">>}

GeneralRows ==
    {RawRow(c, 1, code, 1, <<0, 1>>, pr[1], pr[2], pr[3], pr[4]) :
        c \in Clients, code \in {"97153", "97155", "96159", "96167", "n/a"}, pr \in Profiles}

NotesIdle ==
    /\ full_text = <<>>
    /\ ni = 0
    /\ note_issues = <<>>
    /\ npc = "idle"

InitBilling(rows, n, orders, bad) ==
    /\ df \in SeqsUpTo(rows, n)
    /\ badCols \in bad
    \* a column fails to parse on a cell of a row that line 80 kept
    /\ badCols # {} => DropNa(df) # <<>>
    /\ passes \in orders
    /\ issues = <<>>
    /\ k = 0
    /\ pc = "start"
    /\ ret = <<>>
    /\ NotesIdle

Init ==
    InitBilling(GeneralRows, MaxRows, {PASS_ORDER}, SUBSET {"TimeWorkedFrom", "TimeWorkedTo", "DateOfService"})

Spec == Init /\ [][NextBilling]_vars

(***************************************************************************)
(* scrub_session_notes (lines 154-183).  The extracted text is a sequence  *)
(* of tokens; a literal is "in" a fragment when its token occurs in it.    *)
(***************************************************************************)
DELIMITER == "Activity Statement"

\* tokens matched by \b(97153|97155|97156|96158|96159|96167|96168)\b
CPT_WORDS == {"97153", "97155", "97156", "96158", "96159", "96167", "96168"}

\* tokens matched by "added a data point .*? to (.*?) for", and the capture
GOAL_CAPTURE ==
    ("added a data point 1 to Eye Contact for" :> "Eye Contact")
 @@ ("added a data point 2 to Turn Taking for" :> "Turn Taking")

Contains(text, token) == \E i \in DOMAIN text : text[i] = token

\* str.split(DELIMITER): the fragments between the delimiters, in order
RECURSIVE Split(_, _)
Split(text, acc) ==
    IF text = <<>> THEN <<acc>>
    ELSE IF Head(text) = DELIMITER
         THEN <<acc>> \o Split(Tail(text), <<>>)
         ELSE Split(Tail(text), Append(acc, Head(text)))

\* line 163
Notes(text) == Split(text, <<>>)

\* variant of IsNote: no gate, every fragment is evaluated
IsNoteUngated(note_content) == TRUE

\* line 165
IsNote(note_content) ==
    Contains(note_content, "Goal Summary") \/ Contains(note_content, "Activities that were used")

\* variant of FoundCodes: the pattern without its \b anchors
FoundCodesNoBoundary(note_content) ==
    SelectSeq(note_content, LAMBDA t : t \in CPT_WORDS \cup {"ID97153"})

\* line 168: re.findall
FoundCodes(note_content) == SelectSeq(note_content, LAMBDA t : t \in CPT_WORDS)

\* line 174: re.findall, the captured goal names in text order
GoalLines(note_content) ==
    LET hits == SelectSeq(note_content, LAMBDA t : t \in DOMAIN GOAL_CAPTURE)
    IN  [i \in DOMAIN hits |-> GOAL_CAPTURE[hits[i]]]

\* line 179: Counter(goal_lines).items() keeps first-occurrence order
Duplicates(goal_lines) == SelectSeq(Unique(goal_lines), LAMBDA g : CountIn(goal_lines, g) > 1)

MkNoteIssue(n, issue, detail) == [Note |-> n, Issue |-> issue, Detail |-> detail]

\* lines 174-180
GoalIssues(n, goal_lines) ==
    IF Len(goal_lines) < 1
    THEN <<MkNoteIssue(n, "No Data Points", <<"Goal Summary empty">>)>>
    ELSE IF Len(goal_lines) # Cardinality({goal_lines[i] : i \in DOMAIN goal_lines})
         THEN <<MkNoteIssue(n, "Duplicate Goals",
                            <<"Goals repeated:">> \o Duplicates(goal_lines))>>
         ELSE <<>>

\* lines 165-182 for the fragment enumerate() numbers i
NoteIssues(i, note_content) ==
    IF IsNote(note_content)
    THEN (IF ~ Contains(note_content, "Tax ID:")
          THEN <<MkNoteIssue(i + 1, "Missing Tax ID", <<"Tax ID field not found">>)>>
          ELSE <<>>)
      \o (IF FoundCodes(note_content) = <<>>
          THEN <<MkNoteIssue(i + 1, "Missing CPT Code",
                             <<"No valid billing code found in text">>)>>
          ELSE <<>>)
      \o (IF Contains(note_content, "Session participants")
             /\ ~ Contains(note_content, "CHECKED BOX")
             /\ ~ Contains(note_content, "[x]")
          THEN <<MkNoteIssue(i + 1, "Participants Unchecked", <<"No checkboxes found">>)>>
          ELSE <<>>)
      \o GoalIssues(i + 1, GoalLines(note_content))
      \o (IF ~ Contains(note_content, "Signed On:")
          THEN <<MkNoteIssue(i + 1, "Missing Signature",
                             <<"Provider signature timestamp not found">>)>>
          ELSE <<>>)
    ELSE <<>>

\* line 164: one iteration of the loop over notes[1:]
NoteStep ==
    /\ npc = "loop"
    /\ ni < Len(Notes(full_text)) - 1
    /\ note_issues' = note_issues \o NoteIssues(ni, Notes(full_text)[ni + 2])
    /\ ni' = ni + 1
    /\ UNCHANGED <<full_text, npc>>
    /\ UNCHANGED billingVars

\* line 183
NotesReturn ==
    /\ npc = "loop"
    /\ ni = Len(Notes(full_text)) - 1
    /\ npc' = "done"
    /\ UNCHANGED <<full_text, ni, note_issues>>
    /\ UNCHANGED billingVars

NextNotes ==
    \/ NoteStep
    \/ NotesReturn

\* what a page can hold: the literals of the rules and text that matches none
\* ("ID97153" holds a code without a word boundary)
Tokens ==
    {DELIMITER, "Goal Summary", "Activities that were used", "Tax ID:", "97153",
     "ID97153", "Session participants", "CHECKED BOX", "[x]",
     "added a data point 1 to Eye Contact for",
     "added a data point 2 to Turn Taking for", "Signed On:"}

BillingIdle ==
    /\ df = <<>>
    /\ badCols = {}
    /\ passes = PASS_ORDER
    /\ issues = <<>>
    /\ k = 0
    /\ pc = "idle"
    /\ ret = <<>>

InitNotes ==
    /\ full_text \in SeqsUpTo(Tokens, MaxNoteLen)
    /\ ni = 0
    /\ note_issues = <<>>
    /\ npc = "loop"
    /\ BillingIdle

SpecNotes == InitNotes /\ [][NextNotes]_vars

(***************************************************************************)
(* Further billing specifications: the same actions on other inputs.       *)
(***************************************************************************)
SomeBad == {{}, {"DateOfService"}}

\* rows of the supervision codes and their targets: direct care of either
\* provider, supervision of either client, and the second pair for client 1
OverlapRows ==
    {RawRow(c, p, "97153", 1, iv, 1, 0, "11", "Home") :
        c \in Clients, p \in Providers, iv \in Intervals}
    \cup {RawRow(c, 1, "97155", 1, iv, 1, 0, "11", "Home") :
        c \in Clients, iv \in {<<0, 1>>, <<1, 2>>}}
    \cup {RawRow(1, 1, "96156", 1, iv, 1, 0, "11", "Home") : iv \in {<<0, 1>>, <<1, 2>>}}
    \cup {RawRow(1, 1, "96159", 1, iv, 1, 0, "11", "Home") : iv \in Intervals}

InitOverlap == InitBilling(OverlapRows, MaxOverlapRows, {PASS_ORDER}, SomeBad)

SpecOverlap == InitOverlap /\ [][NextBilling]_vars

\* rows of base and add-on codes of one client on two days
GroupRows ==
    {RawRow(1, 1, code, d, iv, 1, 0, "11", "Home") :
        code \in {"96158", "96159", "96167", "96168"}, d \in Dates,
        iv \in {<<0, 1>>, <<1, 2>>}}

InitGroup == InitBilling(GroupRows, MaxGroupRows, {PASS_ORDER}, SomeBad)

SpecGroup == InitGroup /\ [][NextBilling]_vars

\* the passes of lines 99-150 run in every order
PassOrders ==
    {o \in [1..4 -> {"row", "group", "overlap", "monthly"}] :
        \A a, b \in 1..4 : a # b => o[a] # o[b]}

AnyOrderRows ==
    {RawRow(c, 1, code, 1, iv, 1, 0, "11", "Home") :
        c \in Clients, code \in {"97153", "97155"}, iv \in {<<0, 1>>, <<1, 2>>}}
    \cup {RawRow(1, 1, "96159", 1, <<0, 1>>, h, 0, "11", "Home") : h \in {1, 5}}

InitAnyOrder == InitBilling(AnyOrderRows, MaxRows, PassOrders, SomeBad)

SpecAnyOrder == InitAnyOrder /\ [][NextBilling]_vars

(***************************************************************************)
(* Properties.                                                             *)
(***************************************************************************)
CountWhere(s, P(_)) == Cardinality({i \in DOMAIN s : P(s[i])})

\* the table holds typed rows: the date columns parsed and lines 94-97 ran
Typed == pc \in {"run", "done"} /\ badCols = {}

Finished == pc = "done" /\ badCols = {}

PassDone(name) == Typed /\ \E j \in 1..k : passes[j] = name

SameIssue(x, y) ==
    /\ x.Issue = y.Issue
    /\ x.Client = y.Client
    /\ x.Date = y.Date
    /\ x.Detail = y.Detail

SameBag(a, b) ==
    /\ Len(a) = Len(b)
    /\ \A i \in DOMAIN a :
          CountWhere(a, LAMBDA x : SameIssue(x, a[i])) = CountWhere(b, LAMBDA x : SameIssue(x, a[i]))

IsPrefix(a, b) == Len(a) <= Len(b) /\ \A i \in DOMAIN a : SameIssue(a[i], b[i])

StrictlyOverlap(t, s) == t.from < s.to /\ t.to > s.from

\* row s has a row of target_code of its client that strictly overlaps it
HasOverlap(s, target_code) ==
    \E t \in DOMAIN df : /\ df[t].code = target_code
                         /\ df[t].client = df[s].client
                         /\ StrictlyOverlap(df[t], df[s])

\* row t is a row of its client that a row of sup_code strictly overlaps
IsOverlapped(t, sup_code) ==
    \E s \in DOMAIN df : /\ df[s].code = sup_code
                         /\ df[s].client = df[t].client
                         /\ StrictlyOverlap(df[t], df[s])

(* C1: when a date column fails to parse, no rule runs and the value
   returned is a list of exactly one element, the "Date Error: ..." string. *)
C1_DateErrorIsOneElementList ==
    (pc = "done" /\ badCols # {}) =>
        /\ issues = <<>>
        /\ Len(ret) = 1
        /\ ret[1] = DateErrorString(badCols)

(* C2: for either supervision pair, the "No Overlap for {code}" issues of a
   client and date are as many as the supervising rows of that client and
   date that no target row of the client strictly overlaps (one issue per
   such row, none for the others, none before the overlap pass); touching
   at an endpoint is no overlap. *)
C2_NoOverlapIssuePerUncoveredRow ==
    Typed =>
        \A pair \in {<<97155, 97153>>, <<96156, 96159>>}, c \in Clients, d \in Dates :
            CountWhere(issues, LAMBDA x : /\ x.Issue = "No Overlap for " \o ToString(pair[1])
                                          /\ x.Client = c
                                          /\ x.Date = d)
            = IF PassDone("overlap")
              THEN Cardinality({s \in DOMAIN df : /\ df[s].code = pair[1]
                                                  /\ df[s].client = c
                                                  /\ df[s].date = d
                                                  /\ ~ HasOverlap(s, pair[2])})
              ELSE 0

\* a 97155 row whose only 97153 rows of the client touch it at an endpoint, flagged
C2_Witness ==
    /\ Finished
    /\ \E s, t \in DOMAIN df : /\ df[s].code = 97155
                              /\ df[t].code = 97153
                              /\ df[t].client = df[s].client
                              /\ df[t].from = df[s].to
                              /\ ~ HasOverlap(s, 97153)
                              /\ \E i \in DOMAIN ret : /\ ret[i].Issue = "No Overlap for 97155"
                                                       /\ ret[i].Client = df[s].client

RbtIssuesFor(c, p) ==
    CountWhere(issues, LAMBDA x : /\ x.Issue = "RBT Never Supervised"
                                  /\ x.Client = c
                                  /\ x.Detail = <<"Provider " \o ToString(p) \o " had no overlap">>)

DirectRows(c, p) ==
    {t \in DOMAIN df : df[t].code = 97153 /\ df[t].client = c /\ df[t].provider = p}

(* C3: at the end of a run, each client and provider have exactly one
   "RBT Never Supervised" issue if the provider billed a 97153 row for the
   client and none of these rows strictly overlaps a 97155 row of the
   client, and none otherwise. *)
C3_RbtNeverSupervised ==
    Finished =>
        \A c \in Clients, p \in Providers :
            RbtIssuesFor(c, p) =
                IF DirectRows(c, p) # {} /\ \A t \in DirectRows(c, p) : ~ IsOverlapped(t, 97155)
                THEN 1 ELSE 0

\* a provider with a supervised and an unsupervised session of a client: no issue
C3_Witness ==
    /\ Finished
    /\ \E c \in Clients, p \in Providers :
          /\ \E t \in DirectRows(c, p) : IsOverlapped(t, 97155)
          /\ \E t \in DirectRows(c, p) : ~ IsOverlapped(t, 97155)
          /\ RbtIssuesFor(c, p) = 0

RowsOf(c, d, code) ==
    {i \in DOMAIN df : df[i].client = c /\ df[i].date = d /\ df[i].code = code}

(* C4: a (client, date) group has exactly one "Duplicate Base {code}" issue
   for a base code that appears two or more times in it, however many, and
   none for a base code that appears once or not at all. *)
C4_OneDuplicateBaseIssue ==
    Typed =>
        \A c \in Clients, d \in Dates, b \in {96158, 96164, 96167, 96170} :
            CountWhere(issues, LAMBDA x : /\ x.Issue = "Duplicate Base " \o ToString(b)
                                          /\ x.Client = c
                                          /\ x.Date = d)
            = IF PassDone("group") /\ Cardinality(RowsOf(c, d, b)) >= 2 THEN 1 ELSE 0

\* a base code billed three times in a group, one issue
C4_Witness ==
    /\ Finished
    /\ \E c \in Clients, d \in Dates :
          /\ Cardinality(RowsOf(c, d, 96158)) = 3
          /\ CountWhere(ret, LAMBDA x : /\ x.Issue = "Duplicate Base 96158"
                                        /\ x.Client = c
                                        /\ x.Date = d) = 1

EarliestStart(rows) == Min({df[i].from : i \in rows})

(* C5: for a (client, date) group and a base/add-on pair, "Orphaned Add-on
   {addon}" is emitted once if the group has an add-on row and no base row;
   "Sequence Error" is emitted once if it has both and the earliest base
   start is strictly later than the earliest add-on start; otherwise
   neither is emitted, and never both. *)
C5_AddOnPairing ==
    Typed =>
        \A c \in Clients, d \in Dates,
           pair \in {<<96158, 96159>>, <<96164, 96165>>, <<96167, 96168>>, <<96170, 96171>>} :
            LET base == RowsOf(c, d, pair[1])
                addon == RowsOf(c, d, pair[2])
                orphaned == CountWhere(issues,
                    LAMBDA x : /\ x.Issue = "Orphaned Add-on " \o ToString(pair[2])
                               /\ x.Client = c
                               /\ x.Date = d)
                sequence == CountWhere(issues,
                    LAMBDA x : /\ x.Issue = "Sequence Error"
                               /\ x.Client = c
                               /\ x.Date = d
                               /\ x.Detail = <<"Base " \o ToString(pair[1]) \o " started AFTER Add-on">>)
            IN  /\ orphaned = IF PassDone("group") /\ addon # {} /\ base = {} THEN 1 ELSE 0
                /\ sequence = IF /\ PassDone("group")
                                 /\ addon # {}
                                 /\ base # {}
                                 /\ EarliestStart(base) > EarliestStart(addon)
                              THEN 1 ELSE 0
                /\ orphaned + sequence <= 1

\* two base rows, the earlier one after the add-on: a Sequence Error
C5_Witness ==
    /\ Finished
    /\ \E c \in Clients, d \in Dates :
          /\ Cardinality(RowsOf(c, d, 96158)) >= 2
          /\ Cardinality(RowsOf(c, d, 96159)) >= 1
          /\ EarliestStart(RowsOf(c, d, 96158)) > EarliestStart(RowsOf(c, d, 96159))
          /\ \E i \in DOMAIN ret : /\ ret[i].Issue = "Sequence Error"
                                   /\ ret[i].Client = c
                                   /\ ret[i].Date = d

ROW_ISSUES == {"Session > 4 Hours", "Supervision > 2 Hours", "Forbidden Location", "High Travel Time"}
GROUP_ISSUES ==
    {"Direct Care & Family Conflict", "Sequence Error"}
    \cup {"Duplicate Base " \o ToString(b) : b \in {96158, 96164, 96167, 96170}}
    \cup {"Orphaned Add-on " \o ToString(a) : a \in {96159, 96165, 96168, 96171}}
OVERLAP_ISSUES == {"No Overlap for 97155", "No Overlap for 96156"}
MONTHLY_ISSUES == {"Missing Parent Training", "RBT Never Supervised"}

\* the pass an issue kind belongs to, 1 to 4
PassRank(x) ==
    CASE x.Issue \in ROW_ISSUES -> 1
      [] x.Issue \in GROUP_ISSUES -> 2
      [] x.Issue \in OVERLAP_ISSUES -> 3
      [] x.Issue \in MONTHLY_ISSUES -> 4
      [] OTHER -> 5

InPassOrder(s) ==
    /\ \A i \in DOMAIN s : PassRank(s[i]) <= 4
    /\ \A i, j \in DOMAIN s : i < j => PassRank(s[i]) <= PassRank(s[j])

(* C8: the issue list is in pass order at every moment (per-row issues, then
   group issues, then "No Overlap" issues, then monthly issues), every step
   only appends to it, and a successful run returns it as it stands. *)
C8_PassOrderAppendOnly ==
    /\ [](Typed => InPassOrder(issues))
    /\ [](Finished => InPassOrder(ret) /\ IsPrefix(issues, ret) /\ IsPrefix(ret, issues))
    /\ [][IsPrefix(issues, issues')]_vars

\* a returned list with an issue of each of the four passes
C8_Witness ==
    /\ Finished
    /\ \A r \in 1..4 : \E i \in DOMAIN ret : PassRank(ret[i]) = r

Flags == [i \in DOMAIN df |-> df[i].is_supervised]

(* C9: is_supervised is false on every row before the overlap pass; a row
   has it true only if it is a 97153 row that a 97155 row of its client
   strictly overlaps, and after the overlap pass every such row has it true;
   the 96156->96159 pair never sets it and no other pass writes it. *)
C9_SupervisedFlag ==
    /\ [](Typed =>
            \A t \in DOMAIN df :
                df[t].is_supervised <=>
                    (PassDone("overlap") /\ df[t].code = 97153 /\ IsOverlapped(t, 97155)))
    /\ [][(Typed /\ NextPass # "overlap") => Flags' = Flags]_vars

\* after the overlap pass a supervised 97153 row and an unsupervised one
C9_Witness ==
    /\ PassDone("overlap")
    /\ \E t \in DOMAIN df : df[t].code = 97153 /\ df[t].is_supervised
    /\ \E t \in DOMAIN df : df[t].code = 97153 /\ ~ df[t].is_supervised

\* the typed rows as lines 94-95 leave them
Unflagged(d) == [i \in DOMAIN d |-> [d[i] EXCEPT !.is_supervised = FALSE]]

\* the issues of lines 99-150 in their order on the rows d
CodeOrderIssues(d) ==
    LET out == OverlapChecks(d)
    IN  RowChecks(d) \o GroupChecks(d) \o out.issues \o MonthlyChecks(out.df)

Before(a, b) == \E i, j \in 1..Len(passes) : i < j /\ passes[i] = a /\ passes[j] = b

(* C10 as claimed: whatever the order of the four passes, the run ends with
   the same multiset of issues as the order of the code. *)
C10_AnyOrderSameIssues ==
    Finished => SameBag(issues, CodeOrderIssues(Unflagged(df)))

(* C10 as amended: every order that runs the overlap pass before the monthly
   pass ends with the multiset of issues of the code's order; an order that
   runs the monthly pass first ends with the row, group and overlap issues
   unchanged and with "RBT Never Supervised" for every client and provider
   with a 97153 row, supervised or not. *)
C10_OverlapBeforeMonthly ==
    Finished =>
        LET d == Unflagged(df)
        IN  /\ Before("overlap", "monthly") => SameBag(issues, CodeOrderIssues(d))
            /\ Before("monthly", "overlap") =>
                  /\ SameBag(issues, RowChecks(d) \o GroupChecks(d)
                                        \o OverlapChecks(d).issues \o MonthlyChecks(d))
                  /\ \A c \in Clients, p \in Providers :
                        RbtIssuesFor(c, p) = IF DirectRows(c, p) # {} THEN 1 ELSE 0

\* the monthly pass ran first and flagged a provider whose session is supervised
C10_Witness ==
    /\ Finished
    /\ Before("monthly", "overlap")
    /\ \E t \in DOMAIN df : /\ df[t].is_supervised
                            /\ RbtIssuesFor(df[t].client, df[t].provider) = 1

\* the fragments after the first delimiter, numbered from 1
Segments == 1..(Len(Notes(full_text)) - 1)

Segment(n) == Notes(full_text)[n + 1]

IssuesOfNote(n) == SelectSeq(note_issues, LAMBDA x : x.Note = n)

KindsOfNote(n) == [i \in DOMAIN IssuesOfNote(n) |-> IssuesOfNote(n)[i].Issue]

HasKind(n, kind) == \E i \in DOMAIN note_issues : note_issues[i].Note = n /\ note_issues[i].Issue = kind

HasWord(text, words) == \E i \in DOMAIN text : text[i] \in words

\* the segments the scenario is about: "Goal Summary", no "Tax ID:", no code
Scenario5(n) ==
    /\ HasWord(Segment(n), {"Goal Summary"})
    /\ ~ HasWord(Segment(n), {"Tax ID:"})
    /\ ~ HasWord(Segment(n), CPT_WORDS)

\* the goal names captured in a text, with repetitions
Goals(text) == SelectSeq(text, LAMBDA t : t \in DOMAIN GOAL_CAPTURE)

\* the other three rules find nothing in the segment
OtherRulesPass(n) ==
    /\ HasWord(Segment(n), {"Signed On:"})
    /\ Goals(Segment(n)) # <<>>
    /\ \A i, j \in DOMAIN Goals(Segment(n)) : i # j => Goals(Segment(n))[i] # Goals(Segment(n))[j]
    /\ HasWord(Segment(n), {"Session participants"}) => HasWord(Segment(n), {"CHECKED BOX", "[x]"})

(* C6 as claimed: a segment with "Goal Summary", without "Tax ID:" and
   without a whole-word code yields exactly the two issues "Missing Tax ID"
   and "Missing CPT Code". *)
C6_ExactlyTwoIssues ==
    npc = "done" =>
        \A n \in Segments :
            Scenario5(n) => KindsOfNote(n) = <<"Missing Tax ID", "Missing CPT Code">>

(* C6 as amended: such a segment yields "Missing Tax ID" and then "Missing
   CPT Code", once each; every further issue of the segment is one of
   "Participants Unchecked", "No Data Points", "Duplicate Goals" and
   "Missing Signature", and there is none exactly when the segment has
   "Signed On:", a data point, no repeated goal and no unchecked
   "Session participants". *)
C6_TwoIssuesAndOtherRules ==
    npc = "done" =>
        \A n \in Segments :
            Scenario5(n) =>
                /\ Len(KindsOfNote(n)) >= 2
                /\ SubSeq(KindsOfNote(n), 1, 2) = <<"Missing Tax ID", "Missing CPT Code">>
                /\ \A i \in 3..Len(KindsOfNote(n)) :
                      KindsOfNote(n)[i] \in {"Participants Unchecked", "No Data Points",
                                             "Duplicate Goals", "Missing Signature"}
                /\ Len(KindsOfNote(n)) = 2 <=> OtherRulesPass(n)

\* a scenario segment that the other rules pass: exactly the two issues
C6_Witness ==
    /\ npc = "done"
    /\ \E n \in Segments : Scenario5(n) /\ Len(KindsOfNote(n)) = 2

(* C7: a segment has at most five issues under its index, none when it has
   neither "Goal Summary" nor "Activities that were used"; "No Data Points"
   and "Duplicate Goals" never both; an index is the position of the
   segment among all segments, skipped ones included. *)
C7_SegmentIssues ==
    /\ \A i \in DOMAIN note_issues : note_issues[i].Note \in 1..ni
    /\ \A n \in Segments :
          /\ Len(IssuesOfNote(n)) <= 5
          /\ ~ HasWord(Segment(n), {"Goal Summary", "Activities that were used"})
                => Len(IssuesOfNote(n)) = 0
          /\ ~ (HasKind(n, "No Data Points") /\ HasKind(n, "Duplicate Goals"))
          /\ HasKind(n, "Duplicate Goals") =>
                \E i, j \in DOMAIN Goals(Segment(n)) :
                    i # j /\ Goals(Segment(n))[i] = Goals(Segment(n))[j]

\* a skipped first segment and a second one with five issues
C7_Witness ==
    /\ npc = "done"
    /\ Len(IssuesOfNote(1)) = 0
    /\ Len(IssuesOfNote(2)) = 5

====
